---- MODULE Spec2Model ----
(***************************************************************************)
(* ts-tree-lib: the Tree / TreeNode container.                             *)
(*                                                                         *)
(* Nodes are heap objects, modelled as identifiers 1..MaxNodes handed out  *)
(* in creation order.  A node's fields (children, model, index) are        *)
(* functions of the identifier; reference identity is identifier equality. *)
(* A predicate argument ((node) => boolean) is the set of nodes it holds   *)
(* of.                                                                     *)
(***************************************************************************)
EXTENDS Integers, Sequences, FiniteSets, TLC

VARIABLES
    pc,        \* "new": no Tree constructed yet; "ready"; "threw": the constructor raised
    root,      \* Tree.root: a node or Null
    children,  \* TreeNode.children of every node
    model,     \* TreeNode.model of every node
    index,     \* TreeNode.index of every node
    strategy,  \* Tree.strategy: the traversal function all() and insertChild() use
    alloc,     \* number of TreeNode objects created so far (ids 1..alloc)
    ops,       \* number of calls made by the caller since construction
    last,      \* the last call: operation, arguments, returned node
    pre        \* root and children as they were when the last call started

vars == <<pc, root, children, model, index, strategy, alloc, ops, last, pre>>

----
\* Bounds of the exploration.

\* Largest number of entries in a parse input given to the constructor (Spec,
\* QuerySpec).
MaxTreeNodes == 3
\* Largest number of entries in a parse input (ParseSpec).
MaxParseNodes == 3
\* Calls explored after construction (each may create one node with new TreeNode).
MaxOps == 2

----
\* Values.

\* null / absent node
Null == 0
\* an index the input does not supply (undefined)
Undef == -1


Models == {10, 20}
\* Raw index values of the input: 0 (as in the tests), 7 (never a position), Undef.
RawIdx == {0, 7}

Range(s) == {s[i] : i \in 1..Len(s)}

\* A result that is an array or null.
Absent == [absent |-> TRUE, seq |-> <<>>]
Some(s) == [absent |-> FALSE, seq |-> s]

Reverse(s) == [i \in 1..Len(s) |-> s[Len(s) + 1 - i]]

----
\* The nested plain-data input of parse:
\*   { model, index?, children?: [ { model, index?, children? }, ... ] }
\* `has` tells whether the entry has a `children` property at all.

Mk(m, i, h, kids) == [present |-> TRUE, model |-> m, index |-> i, has |-> h, children |-> kids]
\* a falsy top-level value (null / undefined)
NoData == [present |-> FALSE, model |-> 0, index |-> Undef, has |-> FALSE, children |-> <<>>]

RECURSIVE DataSize(_)
DataSize(d) ==
    LET RECURSIVE Sum(_, _)
        Sum(s, i) == IF i > Len(s) THEN 0 ELSE DataSize(s[i]) + Sum(s, i + 1)
    IN  1 + Sum(d.children, 1)

RECURSIVE DataTrees(_, _, _, _)
RECURSIVE DataForests(_, _, _, _)
\* every input with at most n entries
DataTrees(n, ms, is, hs) ==
    IF n < 1 THEN {}
    ELSE {Mk(m, i, FALSE, <<>>) : m \in ms, i \in {j \in is : FALSE \in hs}}
         \cup {Mk(x[1], x[2], TRUE, x[3]) :
                 x \in {y \in ms \X is \X DataForests(n - 1, ms, is, hs) : TRUE \in hs}}
\* every sequence of inputs with at most n entries in total
DataForests(n, ms, is, hs) ==
    IF n < 1 THEN {<<>>}
    ELSE {<<>>} \cup
         UNION {{<<t>> \o f : f \in DataForests(n - DataSize(t), ms, is, hs)} :
                   t \in DataTrees(n, ms, is, hs)}

\* ParseSpec: every input shape, model, raw index and presence of `children`.
ParseInputs == {NoData} \cup DataTrees(MaxParseNodes, Models, RawIdx \cup {Undef}, BOOLEAN)
\* The tree of the test suite: root -> [child1 -> [grandchild1], child2].
TestTree ==
    Mk(10, 0, TRUE, <<Mk(10, 0, TRUE, <<Mk(10, 0, TRUE, <<>>)>>), Mk(10, 0, TRUE, <<>>)>>)
\* Spec: every shape, as the tests write it (index 0, children always given).
TreeInputs == {NoData, TestTree} \cup DataTrees(MaxTreeNodes, {10}, {0}, {TRUE})

\* Node identifiers: enough for the largest input plus one node per later call.
Max(S) == CHOOSE x \in S : \A y \in S : y <= x
MaxNodes == Max({MaxTreeNodes, MaxParseNodes, DataSize(TestTree)}) + MaxOps
NodeIds == 1..MaxNodes

----
\* TreeNode: addChild / removeChild / moveChild.

\* addChild(child): if (child) this.children.push(child)
AddChild(ch, this, child) ==
    IF child # Null THEN [ch EXCEPT ![this] = Append(@, child)] ELSE ch

\* removeChild(child): this.children = this.children.filter(c => c !== child)
RemoveChild(ch, this, child) ==
    IF child # Null THEN [ch EXCEPT ![this] = SelectSeq(@, LAMBDA c : c # child)] ELSE ch

\* moveChild(child, newParent)
MoveChild(ch, this, child, newParent) ==
    IF child # Null /\ newParent # Null
    THEN AddChild(RemoveChild(ch, this, child), newParent, child)
    ELSE ch

----
\* Tree.parse / Tree.parseChildren.  The heap under construction is the record
\* [children, model, index, alloc].

\* new TreeNode(model, index): the next identifier, with no children.
NewTreeNode(st, m, i) ==
    [st EXCEPT !.alloc = @ + 1,
               !.model[st.alloc + 1] = m,
               !.index[st.alloc + 1] = i,
               !.children[st.alloc + 1] = <<>>]

RECURSIVE ParseChildren(_, _, _, _)
\* children.forEach((childData, index) => ...), from the k-th entry on (k is 1-based,
\* the callback's index is k - 1).
ParseChildren(st, parentNode, kids, k) ==
    IF k > Len(kids) THEN st
    ELSE LET childNode == st.alloc + 1
             st1 == NewTreeNode(st, kids[k].model, (k - 1) + 1)
             st2 == [st1 EXCEPT !.children = AddChild(@, parentNode, childNode)]
             st3 == IF kids[k].has
                    THEN ParseChildren(st2, childNode, kids[k].children, 1)
                    ELSE st2
         IN  ParseChildren(st3, parentNode, kids, k + 1)

\* parse(object): [threw, root, st].  object.children.forEach on an object without
\* a children property is a TypeError.
Parse(st, object) ==
    IF ~object.present THEN [threw |-> FALSE, root |-> Null, st |-> st]
    ELSE LET rootNode == st.alloc + 1
             st1 == NewTreeNode(st, object.model, object.index)
         IN  IF ~object.has
             THEN [threw |-> TRUE, root |-> Null, st |-> st1]
             ELSE [threw |-> FALSE, root |-> rootNode,
                   st |-> ParseChildren(st1, rootNode, object.children, 1)]

----
\* TreeNode.getParent(child): the owner of `child` among the proper descendants
\* of `this`, scanning this.children in order.

RECURSIVE GetParent(_, _, _)
RECURSIVE GetParentFrom(_, _, _, _)
\* for (const node of this.children) { ... } from the k-th child on
GetParentFrom(ch, this, child, k) ==
    IF k > Len(ch[this]) THEN Null
    ELSE LET node == ch[this][k]
         IN  IF child \in Range(ch[node]) THEN node
             ELSE LET parent == GetParent(ch, node, child)
                  IN  IF parent # Null THEN parent
                      ELSE GetParentFrom(ch, this, child, k + 1)

GetParent(ch, this, child) ==
    IF child = Null THEN Null ELSE GetParentFrom(ch, this, child, 1)

----
\* TreeNode.depthFirstSearch / breadthFirstOrder / defaultTraversalStrategy.

Orders == {"pre-order", "post-order", "in-order",
           "reverse-pre-order", "reverse-post-order", "reverse-in-order"}

\* order.includes("pre-order") etc.
IncludesPre(order) == order \in {"pre-order", "reverse-pre-order"}
IncludesIn(order) == order \in {"in-order", "reverse-in-order"}
IncludesPost(order) == order \in {"post-order", "reverse-post-order"}

RECURSIVE TraverseInOrderBetween(_, _, _)
\* in-order taken as: the first child's subtree, the node, the other children
TraverseInOrderBetween(ch, currentNode, order) ==
    LET RECURSIVE Kids(_)
        Kids(k) == IF k > Len(ch[currentNode]) THEN <<>>
                   ELSE TraverseInOrderBetween(ch, ch[currentNode][k], order) \o Kids(k + 1)
    IN  IF IncludesIn(order)
        THEN IF Len(ch[currentNode]) = 0 THEN <<currentNode>>
             ELSE TraverseInOrderBetween(ch, ch[currentNode][1], order)
                  \o <<currentNode>> \o Kids(2)
        ELSE (IF IncludesPre(order) THEN <<currentNode>> ELSE <<>>)
             \o Kids(1)
             \o (IF IncludesPost(order) THEN <<currentNode>> ELSE <<>>)

RECURSIVE Traverse(_, _, _)
\* the inner traverse(currentNode): what it pushes onto result
Traverse(ch, currentNode, order) ==
    LET RECURSIVE Kids(_)
        Kids(k) == IF k > Len(ch[currentNode]) THEN <<>>
                   ELSE Traverse(ch, ch[currentNode][k], order) \o Kids(k + 1)
    IN  (IF IncludesPre(order) THEN <<currentNode>> ELSE <<>>)
        \o Kids(1)
        \o (IF IncludesIn(order) THEN <<currentNode>>
            ELSE IF IncludesPost(order) THEN <<currentNode>> ELSE <<>>)

\* the result never reversed
DepthFirstSearchNoReverse(ch, node, order) == Traverse(ch, node, order)

DepthFirstSearch(ch, node, order) ==
    LET result == Traverse(ch, node, order)
    IN  IF order \in {"reverse-pre-order", "reverse-post-order", "reverse-in-order"}
        THEN Reverse(result)
        ELSE result

RECURSIVE BfsLoopStack(_, _, _)
\* the next node taken from the end of the queue (pop) instead of its front
BfsLoopStack(ch, queue, result) ==
    IF Len(queue) = 0 THEN result
    ELSE LET current == queue[Len(queue)]
         IN  BfsLoopStack(ch, SubSeq(queue, 1, Len(queue) - 1) \o ch[current],
                          Append(result, current))

RECURSIVE BfsLoop(_, _, _)
\* while (queue.length > 0) { current = queue.shift(); result.push(current); queue.push(...current.children) }
BfsLoop(ch, queue, result) ==
    IF Len(queue) = 0 THEN result
    ELSE BfsLoop(ch, Tail(queue) \o ch[Head(queue)], Append(result, Head(queue)))

\* the node and its children only: the queue is never refilled from below
BreadthFirstOrderOneLevel(ch, node) == <<node>> \o ch[node]

BreadthFirstOrder(ch, node) == BfsLoop(ch, <<node>>, <<>>)

\* depthFirstSearch(node) with the order argument omitted
DefaultTraversalStrategy(ch, node) == DepthFirstSearch(ch, node, "in-order")

\* The functions a caller can store in Tree.strategy.
Strategies == {"defaultTraversalStrategy", "breadthFirstOrder"}
\* An order o names the function node => node.depthFirstSearch(node, o).
ApplyStrategy(strat, ch, node) ==
    IF strat = "breadthFirstOrder" THEN BreadthFirstOrder(ch, node)
    ELSE IF strat \in Orders THEN DepthFirstSearch(ch, node, strat)
    ELSE DefaultTraversalStrategy(ch, node)

----
\* TreeNode.findChild / getPath / getReversePath / deleteChildren / insertChild.

\* A model is an object with one property, "value"; any other property is undefined.
Properties == {"value", "name"}
\* node.model[property]
ModelField(mdl, n, property) == IF property = "value" THEN mdl[n] ELSE Undef
\* (node) => node.model[predicateOrProperty] === value, as the set of its nodes
PropertyPredicate(mdl, property, value) ==
    {n \in DOMAIN mdl : ModelField(mdl, n, property) = value}

RECURSIVE FindChildSubtreeFirst(_, _, _)
\* the subtree of a child searched before the child itself is tested
FindChildSubtreeFirst(ch, this, predicate) ==
    LET RECURSIVE Scan(_)
        Scan(k) ==
            IF k > Len(ch[this]) THEN Null
            ELSE LET child == ch[this][k]
                     foundGranChild == FindChildSubtreeFirst(ch, child, predicate)
                 IN  IF foundGranChild # Null THEN foundGranChild
                     ELSE IF child \in predicate THEN child
                     ELSE Scan(k + 1)
    IN  Scan(1)

RECURSIVE FindChild(_, _, _)
\* first match in the pre-order of the proper descendants of `this`
FindChild(ch, this, predicate) ==
    LET RECURSIVE Scan(_)
        Scan(k) ==
            IF k > Len(ch[this]) THEN Null
            ELSE LET child == ch[this][k]
                 IN  IF child \in predicate THEN child
                     ELSE LET foundGranChild == FindChild(ch, child, predicate)
                          IN  IF foundGranChild # Null THEN foundGranChild
                              ELSE Scan(k + 1)
    IN  Scan(1)

RECURSIVE PathTraverse(_, _, _, _)
\* the inner traverse(currentNode) of getPath: [found, path]
PathTraverse(ch, currentNode, targetNode, path) ==
    LET pushed == Append(path, currentNode)
        RECURSIVE Scan(_)
        Scan(k) ==
            IF k > Len(ch[currentNode])
            THEN [found |-> FALSE, path |-> SubSeq(pushed, 1, Len(pushed) - 1)]
            ELSE LET r == PathTraverse(ch, ch[currentNode][k], targetNode, pushed)
                 IN  IF r.found THEN r ELSE Scan(k + 1)
    IN  IF currentNode = targetNode THEN [found |-> TRUE, path |-> pushed]
        ELSE Scan(1)

\* the path returned as it is, empty when the target was not found
GetPathUnchecked(ch, this, targetNode) ==
    Some(PathTraverse(ch, this, targetNode, <<>>).path)

\* return path.length > 0 ? path : null
GetPath(ch, this, targetNode) ==
    LET path == PathTraverse(ch, this, targetNode, <<>>).path
    IN  IF Len(path) > 0 THEN Some(path) ELSE Absent

\* the path handed back without reversing it
GetReversePathForward(ch, this, targetNode) == GetPath(ch, this, targetNode)

\* getReversePath(targetNode): path.reverse() of a found path
GetReversePath(ch, this, targetNode) ==
    LET path == GetPath(ch, this, targetNode)
    IN  IF path.absent THEN Absent ELSE Some(Reverse(path.seq))

\* this.children = this.children.filter(child => !predicate(child))
DeleteChildren(ch, this, predicate) ==
    [ch EXCEPT ![this] = SelectSeq(@, LAMBDA child : child \notin predicate)]

\* findChild(property, value): the predicate is resolved once and handed down
FindChildBy(ch, mdl, this, property, value) ==
    FindChild(ch, this, PropertyPredicate(mdl, property, value))

\* arr.findIndex(predicate), 0-based, -1 when no entry matches
FindIndex(arr, predicate) ==
    IF \E i \in 1..Len(arr) : arr[i] \in predicate
    THEN (CHOOSE i \in 1..Len(arr) :
              arr[i] \in predicate /\ \A j \in 1..(i - 1) : arr[j] \notin predicate) - 1
    ELSE -1

\* arr.splice(start, 0, x) for 0 <= start <= arr.length
Splice0(arr, start, x) ==
    [i \in 1..(Len(arr) + 1) |->
        IF i <= start THEN arr[i] ELSE IF i = start + 1 THEN x ELSE arr[i - 1]]

\* the new child put behind the matching child instead of at its position
NodeInsertChildAfter(ch, this, child, predicate) ==
    IF child = Null THEN ch
    ELSE LET insertIndex == FindIndex(ch[this], predicate)
         IN  IF insertIndex # -1
             THEN [ch EXCEPT ![this] = Splice0(@, insertIndex + 1, child)]
             ELSE [ch EXCEPT ![this] = Append(@, child)]

\* this.insertChild(child, predicate)
NodeInsertChild(ch, this, child, predicate) ==
    IF child = Null THEN ch
    ELSE LET insertIndex == FindIndex(ch[this], predicate)
         IN  IF insertIndex # -1
             THEN [ch EXCEPT ![this] = Splice0(@, insertIndex, child)]
             ELSE [ch EXCEPT ![this] = Append(@, child)]

----
\* Tree: all / find / getPath / getReversePath / walk.

\* an empty array instead of null for the empty tree
TreeAllEmptyArray(r, ch, strat) ==
    IF r # Null THEN Some(ApplyStrategy(strat, ch, r)) ELSE Some(<<>>)

\* all(): this.root ? this.strategy(this.root) : null
TreeAll(r, ch, strat) == IF r # Null THEN Some(ApplyStrategy(strat, ch, r)) ELSE Absent

TreeFind(r, ch, predicate) == IF r # Null THEN FindChild(ch, r, predicate) ELSE Null

TreeGetPath(r, ch, node) == IF r # Null THEN GetPath(ch, r, node) ELSE Absent

TreeGetReversePath(r, ch, node) == IF r # Null THEN GetReversePath(ch, r, node) ELSE Absent

\* the nodes taken from the strategy, as all() and insertChild take them
WalkByStrategy(r, ch) == IF r # Null THEN ApplyStrategy(strategy, ch, r) ELSE <<>>

\* this.root?.depthFirstSearch(this.root).forEach(callback): the callback's arguments, in order
Walk(r, ch) == IF r # Null THEN DepthFirstSearch(ch, r, "in-order") ELSE <<>>

----
\* Tree.remove.

\* arr.indexOf(nodeToRemove), 0-based, -1 when missing
IndexOf(arr, x) ==
    IF x \in Range(arr) THEN (CHOOSE i \in 1..Len(arr) :
                                  arr[i] = x /\ \A j \in 1..(i - 1) : arr[j] # x) - 1
    ELSE -1

\* arr.splice(start, 1): a negative start counts from the end
Splice1(arr, start) ==
    LET s == IF start < 0 THEN (IF Len(arr) + start < 0 THEN 0 ELSE Len(arr) + start)
             ELSE start
    IN  [i \in 1..(IF s < Len(arr) THEN Len(arr) - 1 ELSE Len(arr)) |->
            IF i <= s THEN arr[i] ELSE arr[i + 1]]

\* the guard dropped: splice(-1, 1) removes the last entry when the node is missing
RemoveFromArrayUnguarded(arr, nodeToRemove) == Splice1(arr, IndexOf(arr, nodeToRemove))

RemoveFromArray(arr, nodeToRemove) ==
    LET idx == IndexOf(arr, nodeToRemove)
    IN  IF idx # -1 THEN Splice1(arr, idx) ELSE arr

RECURSIVE RemoveFromTree(_, _, _)
RemoveFromTree(ch, currentNode, nodeToRemove) ==
    LET ch1 == [ch EXCEPT ![currentNode] = RemoveFromArray(@, nodeToRemove)]
        kids == ch1[currentNode]
        RECURSIVE Each(_, _)
        Each(c, k) == IF k > Len(kids) THEN c
                      ELSE Each(RemoveFromTree(c, kids[k], nodeToRemove), k + 1)
    IN  Each(ch1, 1)

\* removing the root only detaches it from whatever holds it: the root stays
TreeRemoveKeepsRoot(r, ch, node) ==
    IF r # Null THEN [root |-> r, children |-> RemoveFromTree(ch, r, node)]
    ELSE [root |-> r, children |-> ch]

\* remove(node): the root and the children lists afterwards
TreeRemove(r, ch, node) ==
    IF r # Null
    THEN IF r = node
         THEN [root |-> Null, children |-> ch]
         ELSE [root |-> r, children |-> RemoveFromTree(ch, r, node)]
    ELSE [root |-> r, children |-> ch]

----
\* Tree.move / Tree.insertChild.

\* move(node, newParent): currentParent = node.getParent(this.root)
TreeMove(r, ch, node, newParent) ==
    LET currentParent == GetParent(ch, node, r)
        ch1 == IF currentParent # Null THEN RemoveChild(ch, currentParent, node) ELSE ch
    IN  AddChild(ch1, newParent, node)

\* the first entry of nodes the predicate holds of, or Null
FirstMatch(nodes, predicate) ==
    IF \E i \in 1..Len(nodes) : nodes[i] \in predicate
    THEN nodes[CHOOSE i \in 1..Len(nodes) :
                   nodes[i] \in predicate /\ \A j \in 1..(i - 1) : nodes[j] \notin predicate]
    ELSE Null

\* the nodes taken from depthFirstSearch whatever the strategy, as walk does
TreeInsertChildDepthFirst(r, ch, strat, child, predicate) ==
    LET nodes == IF r # Null THEN DefaultTraversalStrategy(ch, r) ELSE <<>>
        node == FirstMatch(nodes, predicate)
    IN  IF node # Null THEN AddChild(ch, node, child) ELSE ch

\* insertChild(child, predicate)
TreeInsertChild(r, ch, strat, child, predicate) ==
    LET nodes == IF r # Null THEN ApplyStrategy(strat, ch, r) ELSE <<>>
        node == FirstMatch(nodes, predicate)
    IN  IF node # Null THEN AddChild(ch, node, child) ELSE ch

----
\* The state machine: one action per public operation.

Allocated == 1..alloc

RECURSIVE ReachFrom(_, _, _)
ReachFrom(ch, frontier, seen) ==
    IF frontier = {} THEN seen
    ELSE LET next == UNION {Range(ch[n]) : n \in frontier} \ seen
         IN  ReachFrom(ch, next, seen \cup next)
\* n and everything below it
Reach(ch, n) == ReachFrom(ch, {n}, {n})
\* the nodes of the tree
InTree(r, ch) == IF r = Null THEN {} ELSE Reach(ch, r)
\* the nodes holding n in their children list
Owners(ch, n) == {p \in NodeIds : n \in Range(ch[p])}
\* a node nothing holds: just created, or detached
Unattached(r, ch, n) == n # r /\ Owners(ch, n) = {}

Call(op, node, other, predicate, data) ==
    [op |-> op, node |-> node, other |-> other, pred |-> predicate, data |-> data]

Snapshot == [root |-> root, children |-> children]

Init ==
    /\ pc = "new"
    /\ root = Null
    /\ children = [n \in NodeIds |-> <<>>]
    /\ model = [n \in NodeIds |-> 0]
    /\ index = [n \in NodeIds |-> Undef]
    /\ strategy = "defaultTraversalStrategy"
    /\ alloc = 0
    /\ ops = 0
    /\ last = Call("none", Null, Null, {}, NoData)
    /\ pre = [root |-> Null, children |-> [n \in NodeIds |-> <<>>]]

\* new Tree(object, strategy)
Construct(object, strat) ==
    /\ pc = "new"
    /\ LET p == Parse([children |-> children, model |-> model, index |-> index,
                       alloc |-> alloc], object)
       IN  /\ pc' = IF p.threw THEN "threw" ELSE "ready"
           /\ root' = p.root
           /\ children' = p.st.children
           /\ model' = p.st.model
           /\ index' = p.st.index
           /\ alloc' = p.st.alloc
    /\ strategy' = strat
    /\ last' = Call("construct", Null, Null, {}, object)
    /\ pre' = Snapshot
    /\ UNCHANGED ops

\* the caller's new TreeNode(model, 1)
NewNode(m) ==
    /\ pc = "ready" /\ ops < MaxOps /\ alloc < MaxNodes
    /\ LET st == NewTreeNode([children |-> children, model |-> model, index |-> index,
                              alloc |-> alloc], m, 1)
       IN  /\ children' = st.children
           /\ model' = st.model
           /\ index' = st.index
           /\ alloc' = st.alloc
    /\ ops' = ops + 1
    /\ last' = Call("new", alloc + 1, Null, {}, NoData)
    /\ pre' = Snapshot
    /\ UNCHANGED <<pc, root, strategy>>

\* tree.move(node, newParent); the caller keeps the graph acyclic
Move(node, newParent) ==
    /\ pc = "ready" /\ ops < MaxOps
    /\ newParent \notin Reach(children, node)
    /\ children' = TreeMove(root, children, node, newParent)
    /\ ops' = ops + 1
    /\ last' = Call("move", node, newParent, {}, NoData)
    /\ pre' = Snapshot
    /\ UNCHANGED <<pc, root, model, index, strategy, alloc>>

\* tree.remove(node)
Remove(node) ==
    /\ pc = "ready" /\ ops < MaxOps
    /\ LET t == TreeRemove(root, children, node)
       IN  root' = t.root /\ children' = t.children
    /\ ops' = ops + 1
    /\ last' = Call("remove", node, Null, {}, NoData)
    /\ pre' = Snapshot
    /\ UNCHANGED <<pc, model, index, strategy, alloc>>

\* tree.insertChild(child, predicate), child a node nothing holds
InsertChild(child, predicate) ==
    /\ pc = "ready" /\ ops < MaxOps
    /\ Unattached(root, children, child)
    /\ \A n \in predicate : n \notin Reach(children, child)
    /\ children' = TreeInsertChild(root, children, strategy, child, predicate)
    /\ ops' = ops + 1
    /\ last' = Call("insertChild", child, Null, predicate, NoData)
    /\ pre' = Snapshot
    /\ UNCHANGED <<pc, root, model, index, strategy, alloc>>

\* this.moveChild(child, newParent), called on a node holding child
NodeMoveChild(this, child, newParent) ==
    /\ pc = "ready" /\ ops < MaxOps
    /\ child \in Range(children[this])
    /\ newParent \notin Reach(children, child)
    /\ children' = MoveChild(children, this, child, newParent)
    /\ ops' = ops + 1
    /\ last' = Call("moveChild", child, newParent, {this}, NoData)
    /\ pre' = Snapshot
    /\ UNCHANGED <<pc, root, model, index, strategy, alloc>>

\* this.removeChild(child)
NodeRemoveChild(this, child) ==
    /\ pc = "ready" /\ ops < MaxOps
    /\ children' = RemoveChild(children, this, child)
    /\ ops' = ops + 1
    /\ last' = Call("removeChild", child, this, {}, NoData)
    /\ pre' = Snapshot
    /\ UNCHANGED <<pc, root, model, index, strategy, alloc>>

\* this.deleteChildren(predicate)
NodeDeleteChildren(this, predicate) ==
    /\ pc = "ready" /\ ops < MaxOps
    /\ children' = DeleteChildren(children, this, predicate)
    /\ ops' = ops + 1
    /\ last' = Call("deleteChildren", Null, this, predicate, NoData)
    /\ pre' = Snapshot
    /\ UNCHANGED <<pc, root, model, index, strategy, alloc>>

\* this.insertChild(child, predicate), child a node nothing holds, or null
CallNodeInsertChild(this, child, predicate) ==
    /\ pc = "ready" /\ ops < MaxOps
    /\ child # Null => (Unattached(root, children, child) /\ this \notin Reach(children, child))
    /\ children' = NodeInsertChild(children, this, child, predicate)
    /\ ops' = ops + 1
    /\ last' = Call("nodeInsertChild", child, this, predicate, NoData)
    /\ pre' = Snapshot
    /\ UNCHANGED <<pc, root, model, index, strategy, alloc>>

\* The predicates tried by insertChild: one node, no node, every node, every node
\* of the tree.
InsertPreds == {{n} : n \in Allocated} \cup {{}, Allocated, InTree(root, children)}

ConstructTree == \E object \in TreeInputs, strat \in Strategies : Construct(object, strat)
ConstructAny == \E object \in ParseInputs, strat \in Strategies : Construct(object, strat)
DoNewNode == \E m \in {20} : NewNode(m)
DoMove == \E node \in Allocated, newParent \in Allocated : Move(node, newParent)
DoRemove == \E node \in Allocated : Remove(node)
DoInsertChild == \E child \in Allocated, predicate \in InsertPreds : InsertChild(child, predicate)
DoMoveChild ==
    \E this \in Allocated, child \in Allocated, newParent \in Allocated \cup {Null} :
        NodeMoveChild(this, child, newParent)
DoRemoveChild ==
    \E this \in Allocated : \E child \in Range(children[this]) \cup {Null} :
        NodeRemoveChild(this, child)
DoDeleteChildren ==
    \E this \in Allocated : \E predicate \in SUBSET Range(children[this]) :
        NodeDeleteChildren(this, predicate)

DoNodeInsertChild ==
    \E this \in Allocated, child \in Allocated \cup {Null}, predicate \in InsertPreds :
        CallNodeInsertChild(this, child, predicate)

Next ==
    \/ ConstructTree
    \/ DoNewNode
    \/ DoMove
    \/ DoRemove
    \/ DoInsertChild
    \/ DoMoveChild
    \/ DoRemoveChild
    \/ DoDeleteChildren
    \/ DoNodeInsertChild

Spec == Init /\ [][Next]_vars

\* The constructor alone, over every input.
ParseNext == ConstructAny
ParseSpec == Init /\ [][ParseNext]_vars

----
\* The calls that only read, on the trees the constructor builds (QuerySpec).

\* The test suite's shape with every choice of models.
QueryTestTrees ==
    {Mk(a, 0, TRUE, <<Mk(b, 0, TRUE, <<Mk(c, 0, TRUE, <<>>)>>), Mk(d, 0, TRUE, <<>>)>>) :
        a \in Models, b \in Models, c \in Models, d \in Models}
\* Two children with a child each: two parents on one level.
LevelTree ==
    Mk(10, 0, TRUE, <<Mk(10, 0, TRUE, <<Mk(20, 0, TRUE, <<>>)>>),
                      Mk(10, 0, TRUE, <<Mk(20, 0, TRUE, <<>>)>>)>>)
\* every shape of Spec, the test suite's with every choice of models, and LevelTree
QueryInputs == TreeInputs \cup QueryTestTrees \cup {LevelTree}
\* the strategies given to the constructor: the two named functions and
\* depthFirstSearch with each order
QueryStrategies == Strategies \cup Orders

\* What a call that only reads leaves behind: its arguments and what it returned.
Returned(op, node, other, predicate, property, value, result) ==
    [op |-> op, node |-> node, other |-> other, pred |-> predicate, data |-> NoData,
     property |-> property, value |-> value, result |-> result]

Reads(call) ==
    /\ pc = "ready"
    /\ last' = call
    /\ pre' = Snapshot
    /\ UNCHANGED <<pc, root, children, model, index, strategy, alloc, ops>>

\* this.findChild(predicate)
CallFindChild(this, predicate) ==
    Reads(Returned("findChild", this, Null, predicate, "", Undef,
                   FindChild(children, this, predicate)))
\* this.findChild(property, value)
CallFindChildBy(this, property, value) ==
    Reads(Returned("findChildBy", this, Null, {}, property, value,
                   FindChildBy(children, model, this, property, value)))
\* tree.find(predicate)
CallFind(predicate) ==
    Reads(Returned("find", Null, Null, predicate, "", Undef,
                   TreeFind(root, children, predicate)))
\* this.getPath(targetNode)
CallNodeGetPath(this, targetNode) ==
    Reads(Returned("nodeGetPath", this, targetNode, {}, "", Undef,
                   GetPath(children, this, targetNode)))
\* this.getReversePath(targetNode)
CallNodeGetReversePath(this, targetNode) ==
    Reads(Returned("nodeGetReversePath", this, targetNode, {}, "", Undef,
                   GetReversePath(children, this, targetNode)))
\* tree.getPath(node)
CallGetPath(node) ==
    Reads(Returned("getPath", Null, node, {}, "", Undef, TreeGetPath(root, children, node)))
\* tree.getReversePath(node)
CallGetReversePath(node) ==
    Reads(Returned("getReversePath", Null, node, {}, "", Undef,
                   TreeGetReversePath(root, children, node)))
\* tree.all()
CallAll ==
    Reads(Returned("all", Null, Null, {}, "", Undef, TreeAll(root, children, strategy)))
\* node.depthFirstSearch(node, order)
CallDepthFirstSearch(node, order) ==
    Reads(Returned("depthFirstSearch", node, Null, {}, order, Undef,
                   DepthFirstSearch(children, node, order)))
\* node.depthFirstSearch(node)
CallDepthFirstSearchDefault(node) ==
    Reads(Returned("depthFirstSearch", node, Null, {}, "", Undef,
                   DefaultTraversalStrategy(children, node)))
\* node.breadthFirstOrder(node)
CallBreadthFirstOrder(node) ==
    Reads(Returned("breadthFirstOrder", node, Null, {}, "", Undef,
                   BreadthFirstOrder(children, node)))
\* tree.walk(callback): the result is the sequence of the callback's arguments
CallWalk ==
    Reads(Returned("walk", Null, Null, {}, "", Undef, Walk(root, children)))

ConstructQuery ==
    \E object \in QueryInputs, strat \in QueryStrategies : Construct(object, strat)
DoFindChild == \E this \in Allocated, predicate \in SUBSET Allocated : CallFindChild(this, predicate)
DoFindChildBy ==
    \E this \in Allocated, property \in Properties, value \in Models \cup {Undef} :
        CallFindChildBy(this, property, value)
DoFind == \E predicate \in SUBSET Allocated : CallFind(predicate)
DoNodeGetPath == \E this \in Allocated, targetNode \in Allocated : CallNodeGetPath(this, targetNode)
DoNodeGetReversePath ==
    \E this \in Allocated, targetNode \in Allocated : CallNodeGetReversePath(this, targetNode)
DoGetPath == \E node \in Allocated : CallGetPath(node)
DoGetReversePath == \E node \in Allocated : CallGetReversePath(node)
DoAll == CallAll
DoDepthFirstSearch == \E node \in Allocated, order \in Orders : CallDepthFirstSearch(node, order)
DoDepthFirstSearchDefault == \E node \in Allocated : CallDepthFirstSearchDefault(node)
DoBreadthFirstOrder == \E node \in Allocated : CallBreadthFirstOrder(node)
DoWalk == CallWalk

QueryNext ==
    \/ ConstructQuery
    \/ DoFindChild
    \/ DoFindChildBy
    \/ DoFind
    \/ DoNodeGetPath
    \/ DoNodeGetReversePath
    \/ DoGetPath
    \/ DoGetReversePath
    \/ DoAll
    \/ DoDepthFirstSearch
    \/ DoDepthFirstSearchDefault
    \/ DoBreadthFirstOrder
    \/ DoWalk

QuerySpec == Init /\ [][QueryNext]_vars

----
\* Vocabulary of the properties.

Ready == pc = "ready"

Count(arr, x) == Cardinality({i \in 1..Len(arr) : arr[i] = x})

\* Single ownership below r: every node reachable from r is held by at most one
\* reachable node, and at most once.
SingleOwnership(r, ch) ==
    \A n \in InTree(r, ch) :
        /\ \A p, q \in InTree(r, ch) :
              (n \in Range(ch[p]) /\ n \in Range(ch[q])) => p = q
        /\ \A p \in InTree(r, ch) : Count(ch[p], n) <= 1

\* The tree when the last call started.
PreTree == InTree(pre.root, pre.children)
PreIsTree == pre.root # Null /\ SingleOwnership(pre.root, pre.children)

\* The precondition of move in C1: node a non-root node of the tree, newParent a
\* node of the tree that is neither node nor below it.
MovedInsideTree ==
    /\ last.op = "move"
    /\ PreIsTree
    /\ last.node \in PreTree \ {pre.root}
    /\ last.other \in PreTree \ Reach(pre.children, last.node)

\* C1: after Tree.move(node, newParent) inside a tree, root.getParent(node) is newParent.
C1_MoveThenGetParent ==
    MovedInsideTree => GetParent(children, root, last.node) = last.other

\* C2: after Tree.move(node, newParent) with newParent different from the parent P
\* of node, node is no longer in P.children.
C2_MoveDetaches ==
    (/\ last.op = "move"
     /\ PreIsTree
     /\ last.node \in PreTree \ {pre.root})
    => \A P \in PreTree :
          (last.node \in Range(pre.children[P]) /\ last.other # P)
          => last.node \notin Range(children[P])

\* The calls C3 lists, with the arguments C3 allows.
ListedCall ==
    \/ last.op \in {"insertChild", "remove", "removeChild", "deleteChildren", "moveChild"}
    \/ /\ last.op = "move"
       /\ last.node \in PreTree \ {pre.root}
       /\ last.other \in PreTree \ Reach(pre.children, last.node)

\* C3: single ownership holds of the tree Tree.parse builds and is kept by
\* Tree.insertChild, Tree.move, Tree.remove, Node.moveChild, Node.removeChild and
\* Node.deleteChildren, so it holds after any sequence of them.
C3_SingleOwnershipKept ==
    /\ (last.op = "construct" /\ Ready) => SingleOwnership(root, children)
    /\ (ListedCall /\ SingleOwnership(pre.root, pre.children))
          => SingleOwnership(root, children)

----
\* C4: a node that is not part of the tree.

\* The amended statement for move: only newParent's list changes, by one append.
ForeignMoveAppends ==
    (last.op = "move" /\ pre.root # Null /\ last.node \notin PreTree)
    => /\ Ready
       /\ root = pre.root
       /\ children = [pre.children EXCEPT ![last.other] = Append(@, last.node)]

ForeignRemoveNoOp ==
    (last.op = "remove" /\ pre.root # Null /\ last.node \notin PreTree)
    => (Ready /\ root = pre.root /\ children = pre.children)

ForeignGetParentAbsent ==
    (Ready /\ root # Null)
    => \A x \in Allocated \ InTree(root, children) : GetParent(children, root, x) = Null

\* C4 (as amended): on a non-empty tree, passing a node that is not part of the tree to Tree.remove or
\* root.getParent is a silent no-op (root and every children list unchanged,
\* getParent returns absent); Tree.move with such a node raises no error and leaves
\* the root unchanged, but appends the node to newParent.children, every other
\* children list being unchanged.
C4_ForeignNodeAmended ==
    ForeignMoveAppends /\ ForeignRemoveNoOp /\ ForeignGetParentAbsent

\* C4 (as written): move, remove and getParent with a node that is not part of the
\* tree change no children list (newParent's included) and getParent returns absent.
C4_ForeignNodeNoOp ==
    /\ (last.op \in {"move", "remove"} /\ pre.root # Null /\ last.node \notin PreTree)
          => (Ready /\ root = pre.root /\ children = pre.children)
    /\ ForeignGetParentAbsent

\* A node outside a non-empty tree was moved under a node of the tree, and was
\* removed, with getParent absent for it.
C4_Witness ==
    /\ last.op = "move"
    /\ pre.root # Null
    /\ last.node \notin PreTree
    /\ last.other \in PreTree
    /\ last.node \in Range(children[last.other])
    /\ GetParent(pre.children, pre.root, last.node) = Null

----
\* C5: getParent inside a single-ownership tree.

\* the node at or below T holding c
OwnerOf(ch, T, c) == CHOOSE p \in Reach(ch, T) : c \in Range(ch[p])

\* C5: in an acyclic single-ownership tree, T.getParent(C) is the owner of C for
\* every C below T (also when that owner is T itself), and absent when C is absent,
\* is T, or is not below T.
C5_GetParentOwner ==
    (Ready /\ root # Null /\ SingleOwnership(root, children))
    => \A T \in InTree(root, children) : \A C \in Allocated \cup {Null} :
          GetParent(children, T, C) =
             IF C \in Reach(children, T) \ {T} THEN OwnerOf(children, T, C) ELSE Null

----
\* C6: removing the root.

RemovedRoot == last.op = "remove" /\ pre.root # Null /\ last.node = pre.root

\* C6: Tree.remove(root) on a non-empty tree sets the root to absent, so that all(),
\* find, getPath and getReversePath return absent; no children list is touched.
C6_RemoveRootEmptiesTree ==
    RemovedRoot
    => /\ root = Null
       /\ children = pre.children
       /\ TreeAll(root, children, strategy) = Absent
       /\ \A predicate \in SUBSET Allocated : TreeFind(root, children, predicate) = Null
       /\ \A n \in Allocated :
             /\ TreeGetPath(root, children, n) = Absent
             /\ TreeGetReversePath(root, children, n) = Absent

\* The root of a tree with children and grandchildren was removed.
C6_Witness ==
    /\ RemovedRoot
    /\ \E c \in Range(pre.children[pre.root]) : pre.children[c] # <<>>
    /\ root = Null

----
\* C7: removing a node that is not the root.

Without(arr, x) == SelectSeq(arr, LAMBDA c : c # x)

RemovedNonRoot == last.op = "remove" /\ pre.root # Null /\ last.node # pre.root

\* C7: after Tree.remove(N), N not the root, no node reachable from the root holds N,
\* all() is the set of nodes that were reachable from the root without passing
\* through N, the root is unchanged, and in every children list the entries other
\* than N keep their order.
C7_RemoveNonRoot ==
    RemovedNonRoot
    => /\ root = pre.root
       /\ \A p \in InTree(root, children) : last.node \notin Range(children[p])
       /\ Range(TreeAll(root, children, strategy).seq)
             = InTree(pre.root, [p \in NodeIds |-> Without(pre.children[p], last.node)])
       /\ \A p \in NodeIds :
             Without(children[p], last.node) = Without(pre.children[p], last.node)

----
\* C8: the empty tree.

EmptyTreeQueries ==
    (Ready /\ root = Null)
    => /\ TreeAll(root, children, strategy) = Absent
       /\ Walk(root, children) = <<>>
       /\ \A predicate \in SUBSET Allocated : TreeFind(root, children, predicate) = Null
       /\ \A n \in Allocated :
             /\ TreeGetPath(root, children, n) = Absent
             /\ TreeGetReversePath(root, children, n) = Absent

EmptyTreeRemoveInsert ==
    (last.op \in {"remove", "insertChild"} /\ pre.root = Null)
    => (Ready /\ root = Null /\ children = pre.children)

\* C8 (as amended): on an empty tree all(), find(), getPath() and getReversePath()
\* return absent, walk() never invokes the callback, remove() and insertChild()
\* leave the root absent and change no children list; move(node, newParent) leaves
\* the root absent but appends node to newParent.children, every other children
\* list being unchanged.
C8_EmptyTreeAmended ==
    /\ EmptyTreeQueries
    /\ EmptyTreeRemoveInsert
    /\ (last.op = "move" /\ pre.root = Null)
          => /\ Ready /\ root = Null
             /\ children = [pre.children EXCEPT ![last.other] = Append(@, last.node)]

\* C8 (as written): on an empty tree every Tree operation is a no-op: the queries
\* return absent, and remove(), move() and insertChild() leave the root absent and
\* change the children list of no node, the arguments included.
C8_EmptyTreeNoOp ==
    /\ EmptyTreeQueries
    /\ (last.op \in {"remove", "insertChild", "move"} /\ pre.root = Null)
          => (Ready /\ root = Null /\ children = pre.children)

\* move was called on an empty tree whose former nodes still hold children.
C8_Witness ==
    /\ last.op = "move"
    /\ pre.root = Null
    /\ root = Null
    /\ pre.children[last.other] # <<>>
    /\ Len(children[last.other]) = Len(pre.children[last.other]) + 1

----
\* C9, C10: the constructor's parse (ParseSpec).

RECURSIVE Mirrors(_, _)
\* node n and what is below it have the shape, order and models of input d
Mirrors(n, d) ==
    /\ model[n] = d.model
    /\ Len(children[n]) = Len(d.children)
    /\ \A i \in 1..Len(d.children) : Mirrors(children[n][i], d.children[i])

Parsed == last.op = "construct"

\* C9: Tree.parse builds a node graph with the input's shape, order and models; the
\* root's index is the one the data supplies and every other node's index is its
\* 1-based position in its parent's children list; a falsy input gives an empty tree.
C9_ParseMirrorsInput ==
    Parsed
    => IF last.data.present
       THEN /\ Ready
            /\ root # Null
            /\ Mirrors(root, last.data)
            /\ index[root] = last.data.index
            /\ \A p \in Allocated : \A i \in 1..Len(children[p]) :
                  index[children[p][i]] = i
       ELSE Ready /\ root = Null /\ alloc = 0

\* C10: a top-level input with a model and no `children` entry parses, without an
\* error, to a one-node tree whose root has no children.
C10_TopLevelChildrenOptional ==
    (Parsed /\ last.data.present /\ ~last.data.has)
    => (Ready /\ root # Null /\ alloc = 1 /\ children[root] = <<>>)

----
\* C11..C20: the calls that only read (QuerySpec) and the two insertChild (Spec).

RECURSIVE PreOrderOf(_, _)
\* n, then what is below each child of n, child by child in list order
PreOrderOf(ch, n) ==
    LET RECURSIVE Below(_)
        Below(k) == IF k > Len(ch[n]) THEN <<>>
                    ELSE PreOrderOf(ch, ch[n][k]) \o Below(k + 1)
    IN  <<n>> \o Below(1)

\* the proper descendants of T in pre-order
ProperPreOrder(ch, T) == Tail(PreOrderOf(ch, T))

\* the first entry of s in P, or Null
FirstOf(s, P) ==
    IF \A i \in 1..Len(s) : s[i] \notin P THEN Null
    ELSE s[CHOOSE i \in 1..Len(s) : s[i] \in P /\ \A j \in 1..(i - 1) : s[j] \notin P]

\* C11: T.findChild(p) is the first node satisfying p in the pre-order of the
\* proper descendants of T, absent when none satisfies p; T is never tested, so
\* Tree.find is absent when only the root satisfies p; findChild(property, value)
\* returns what findChild returns for the predicate model[property] = value.
C11_FindChildPreOrder ==
    /\ last.op = "findChild"
          => last.result = FirstOf(ProperPreOrder(children, last.node), last.pred)
    /\ last.op = "find"
          => last.result = IF root = Null THEN Null
                           ELSE FirstOf(ProperPreOrder(children, root), last.pred)
    /\ last.op = "findChildBy"
          => last.result =
                FirstOf(ProperPreOrder(children, last.node),
                        {n \in Allocated : ModelField(model, n, last.property) = last.value})

\* findChild found a grandchild although T and a later child of T satisfy p too
C11_Witness ==
    /\ last.op = "findChild"
    /\ last.node \in last.pred
    /\ last.result # Null
    /\ last.result \notin Range(children[last.node])
    /\ \E c \in Range(children[last.node]) : c \in last.pred

\* The node Tree.insertChild attaches to: the first node satisfying the predicate
\* in what the strategy returned for the root when the call started.
InsertTarget ==
    FirstOf(IF pre.root = Null THEN <<>> ELSE ApplyStrategy(strategy, pre.children, pre.root),
            last.pred)

\* C12: Tree.insertChild(child, p) appends child at the end of the children list of
\* the first node satisfying p in the sequence the current strategy gives for the
\* root; no other list changes; nothing changes when no node matches or the tree
\* is empty.  In a tree, under the default strategy no node below the chosen one
\* satisfies p, and under breadthFirstOrder no node above it does.
C12_TreeInsertAppends ==
    last.op = "insertChild"
    => /\ root = pre.root
       /\ IF InsertTarget = Null THEN children = pre.children
          ELSE /\ children[InsertTarget] = Append(pre.children[InsertTarget], last.node)
               /\ Len(children[InsertTarget]) = Len(pre.children[InsertTarget]) + 1
               /\ \A n \in NodeIds \ {InsertTarget} : children[n] = pre.children[n]
       /\ (InsertTarget # Null /\ PreIsTree /\ strategy = "defaultTraversalStrategy")
             => \A d \in Reach(pre.children, InsertTarget) \ {InsertTarget} : d \notin last.pred
       /\ (InsertTarget # Null /\ PreIsTree /\ strategy = "breadthFirstOrder")
             => \A a \in PreTree \ {InsertTarget} :
                   InsertTarget \in Reach(pre.children, a) => a \notin last.pred

\* the root and a node below it satisfy p, and under breadthFirstOrder the child
\* went to the root although a node below satisfies p
C12_Witness ==
    /\ last.op = "insertChild"
    /\ PreIsTree
    /\ strategy = "breadthFirstOrder"
    /\ pre.root \in last.pred
    /\ \E d \in PreTree \ {pre.root} : d \in last.pred
    /\ children[pre.root] = Append(pre.children[pre.root], last.node)

\* The 1-based position of the first entry of arr in P, 0 when there is none.
FirstPosition(arr, P) ==
    IF \A i \in 1..Len(arr) : arr[i] \notin P THEN 0
    ELSE CHOOSE i \in 1..Len(arr) : arr[i] \in P /\ \A j \in 1..(i - 1) : arr[j] \notin P

LeadsDown(ch, s, T, N) ==
    /\ Len(s) >= 1
    /\ s[1] = T
    /\ s[Len(s)] = N
    /\ \A i \in 1..(Len(s) - 1) : s[i + 1] \in Range(ch[s[i]])

\* C14: in a single-ownership tree, T.getPath(N) is the sequence leading from T
\* down to N when N is T or below T ([T] for N = T), and absent, never an empty
\* or partial sequence, when N is not; getPath leaves the tree as it was.
C14_GetPathLeadsDown ==
    (last.op = "nodeGetPath" /\ SingleOwnership(root, children))
    => LET T == last.node
           N == last.other
       IN  /\ IF N \in Reach(children, T)
              THEN /\ ~last.result.absent
                   /\ LeadsDown(children, last.result.seq, T, N)
                   /\ N = T => last.result.seq = <<T>>
              ELSE last.result = Absent
           /\ root = pre.root
           /\ children = pre.children

\* the path was found after a first child of T was tried and given up
C14_Witness ==
    /\ last.op = "nodeGetPath"
    /\ ~last.result.absent
    /\ Len(last.result.seq) >= 2
    /\ children[last.node][1] # last.result.seq[2]
    /\ children[children[last.node][1]] # <<>>

\* r is p read from its end to its start; both are absent or neither is.
IsReversed(r, p) ==
    /\ r.absent = p.absent
    /\ Len(r.seq) = Len(p.seq)
    /\ \A i \in 1..Len(p.seq) : r.seq[i] = p.seq[Len(p.seq) + 1 - i]

\* C15: getReversePath(N) is getPath(N) read from its end to its start, the target
\* first and the root (the receiver) last, and it is absent exactly when
\* getPath(N) is absent.
C15_ReversePathIsPathReversed ==
    /\ last.op = "nodeGetReversePath"
          => /\ IsReversed(last.result, GetPath(children, last.node, last.other))
             /\ ~last.result.absent
                   => /\ last.result.seq[1] = last.other
                      /\ last.result.seq[Len(last.result.seq)] = last.node
    /\ last.op = "getReversePath"
          => /\ IsReversed(last.result, TreeGetPath(root, children, last.other))
             /\ ~last.result.absent
                   => /\ last.result.seq[1] = last.other
                      /\ last.result.seq[Len(last.result.seq)] = root

\* tree.getReversePath of a grandchild of the root: three nodes, the root last
C15_Witness ==
    /\ last.op = "getReversePath"
    /\ ~last.result.absent
    /\ Len(last.result.seq) = 3
    /\ last.result.seq[1] = last.other
    /\ last.result.seq[3] = root

\* s holds every node of S exactly once and nothing else.
EachOnce(s, S) ==
    /\ Len(s) = Cardinality(S)
    /\ \A n \in S : Count(s, n) = 1

\* C16: for a non-empty single-ownership tree, all() holds every node of the tree
\* exactly once whichever traversal is the strategy (depthFirstSearch in any of its
\* six orders, or breadthFirstOrder): the results of any two strategies are equal
\* as sets, and their length is the number of nodes.
C16_AllIsPermutation ==
    (last.op = "all" /\ root # Null /\ SingleOwnership(root, children))
    => /\ ~last.result.absent
       /\ EachOnce(last.result.seq, InTree(root, children))
       /\ \A s \in QueryStrategies :
             /\ Range(TreeAll(root, children, s).seq) = Range(last.result.seq)
             /\ Len(TreeAll(root, children, s).seq) = Cardinality(InTree(root, children))

\* all() of the test suite's shape under breadthFirstOrder, in another order than
\* the default strategy gives
C16_Witness ==
    /\ last.op = "all"
    /\ strategy = "breadthFirstOrder"
    /\ Cardinality(InTree(root, children)) = 4
    /\ last.result # TreeAll(root, children, "defaultTraversalStrategy")
    /\ last.result # TreeAll(root, children, "pre-order")

\* r is the sequence p read from its end to its start.
Backwards(r, p) ==
    /\ Len(r) = Len(p)
    /\ \A i \in 1..Len(p) : r[i] = p[Len(p) + 1 - i]

\* C17: depthFirstSearch with reverse-pre-order, reverse-post-order and
\* reverse-in-order gives the result of pre-order, post-order and in-order read
\* backwards; pre-order gives a node, then what is below each of its children,
\* child by child in list order.
C17_ReverseOrdersAndPreOrder ==
    last.op = "depthFirstSearch"
    => /\ last.property = "reverse-pre-order"
             => Backwards(last.result, DepthFirstSearch(children, last.node, "pre-order"))
       /\ last.property = "reverse-post-order"
             => Backwards(last.result, DepthFirstSearch(children, last.node, "post-order"))
       /\ last.property = "reverse-in-order"
             => Backwards(last.result, DepthFirstSearch(children, last.node, "in-order"))
       /\ last.property = "pre-order"
             => last.result = PreOrderOf(children, last.node)

\* reverse-pre-order of a node with a grandchild and a second child: the node
\* comes last, and the result is not what reverse-post-order gives
C17_Witness ==
    /\ last.op = "depthFirstSearch"
    /\ last.property = "reverse-pre-order"
    /\ Len(last.result) = 4
    /\ last.result[4] = last.node
    /\ last.result # DepthFirstSearch(children, last.node, "reverse-post-order")

\* the position of x in s, x an entry of s
Pos(s, x) == CHOOSE i \in 1..Len(s) : s[i] = x

\* In s every node comes after everything below it, and the children of a node
\* come in the order of its children list.
DescendantsFirst(ch, s) ==
    /\ \A n \in Range(s) : \A d \in Reach(ch, n) \ {n} : Pos(s, d) < Pos(s, n)
    /\ \A p \in Range(s) : \A i, j \in 1..Len(ch[p]) :
          i < j => Pos(s, ch[p][i]) < Pos(s, ch[p][j])

\* C18: depthFirstSearch gives one and the same sequence for post-order, for
\* in-order and for the order left out; in it every node of the subtree, a tree,
\* occurs exactly once and after everything below it, siblings in list order.
C18_PostOrderIsInOrder ==
    (last.op = "depthFirstSearch" /\ last.property \in {"post-order", "in-order", ""})
    => /\ last.result = DepthFirstSearch(children, last.node, "post-order")
       /\ last.result = DepthFirstSearch(children, last.node, "in-order")
       /\ last.result = DefaultTraversalStrategy(children, last.node)
       /\ SingleOwnership(last.node, children)
             => /\ EachOnce(last.result, Reach(children, last.node))
                /\ DescendantsFirst(children, last.result)

\* in-order of a node with two children, the first of them with a child
C18_Witness ==
    /\ last.op = "depthFirstSearch"
    /\ last.property = "in-order"
    /\ Len(children[last.node]) = 2
    /\ children[children[last.node][1]] # <<>>
    /\ last.result[Len(last.result)] = last.node

\* In a single-ownership tree below T: the node holding n, and the depth of n.
ParentIn(ch, T, n) == CHOOSE p \in Reach(ch, T) : n \in Range(ch[p])
RECURSIVE DepthIn(_, _, _)
DepthIn(ch, T, n) == IF n = T THEN 0 ELSE 1 + DepthIn(ch, T, ParentIn(ch, T, n))

\* C19: for a single-ownership subtree, breadthFirstOrder(node) starts with node,
\* lists every node of depth d before any node of depth d + 1, siblings in the
\* order of their children list and the nodes of one level in the order of their
\* parents, and holds each node exactly once.
C19_BreadthFirstIsLevelOrder ==
    (last.op = "breadthFirstOrder" /\ SingleOwnership(last.node, children))
    => LET T == last.node
           s == last.result
           S == Reach(children, T)
       IN  /\ s[1] = T
           /\ EachOnce(s, S)
           /\ \A a, b \in S :
                 DepthIn(children, T, a) < DepthIn(children, T, b) => Pos(s, a) < Pos(s, b)
           /\ \A p \in S : \A i, j \in 1..Len(children[p]) :
                 i < j => Pos(s, children[p][i]) < Pos(s, children[p][j])
           /\ \A a, b \in S \ {T} :
                 (/\ DepthIn(children, T, a) = DepthIn(children, T, b)
                  /\ Pos(s, ParentIn(children, T, a)) < Pos(s, ParentIn(children, T, b)))
                 => Pos(s, a) < Pos(s, b)

\* two children with a child each: both children, then the two grandchildren in
\* the order of their parents
C19_Witness ==
    /\ last.op = "breadthFirstOrder"
    /\ Len(last.result) = 5
    /\ Len(children[last.node]) = 2
    /\ last.result[4] \in Range(children[last.result[2]])
    /\ last.result[5] \in Range(children[last.result[3]])

RECURSIVE PostOrderOf(_, _)
\* what is below each child of n, child by child in list order, then n
PostOrderOf(ch, n) ==
    LET RECURSIVE Below(_)
        Below(k) == IF k > Len(ch[n]) THEN <<>>
                    ELSE PostOrderOf(ch, ch[n][k]) \o Below(k + 1)
    IN  Below(1) \o <<n>>

\* C20: Tree.walk(callback) on a non-empty tree calls the callback exactly once
\* for each node, for a node after everything below it and for the root last;
\* the order is the post-order of the tree whatever the strategy field holds,
\* which decides the order of all() only.
C20_WalkOncePerNodeChildrenFirst ==
    (last.op = "walk" /\ root # Null)
    => /\ last.result = PostOrderOf(children, root)
       /\ SingleOwnership(root, children)
             => /\ EachOnce(last.result, InTree(root, children))
                /\ DescendantsFirst(children, last.result)
                /\ last.result[Len(last.result)] = root

\* walk of a tree whose strategy is breadthFirstOrder: all() starts with the
\* root, walk ends with it
C20_Witness ==
    /\ last.op = "walk"
    /\ strategy = "breadthFirstOrder"
    /\ Len(last.result) >= 4
    /\ TreeAll(root, children, strategy).seq # last.result
    /\ TreeAll(root, children, strategy).seq[1] = root
    /\ last.result[Len(last.result)] = root

====
